---- MODULE Spec2Model ----
(***************************************************************************)
(* Model of the eBike BLDC controller firmware (tabahi/eBike-Controller).  *)
(*                                                                         *)
(* The firmware is a single-threaded Arduino program: setup() runs once,   *)
(* then loop() runs forever.  Every C function is an operator that maps a  *)
(* record of the program's globals to the record after the call; an action *)
(* applies one whole call.  Each write to an output pin or to the          *)
(* H_states/L_states arrays is also appended, with a snapshot of the       *)
(* outputs after it, to `log`, so that the states between two consecutive  *)
(* writes of one call can be inspected; `ev` lists the calls, serial       *)
(* messages and audio patterns of the call in order.                       *)
(***************************************************************************)
EXTENDS Integers, Sequences, FiniteSets, TLC

VARIABLES
    pinH, pinL,             \* output pins: high-side duty 0..255, low-side level 0/1
    H_states, L_states,     \* commanded MOSFET states
    HALL_states, hall_state, last_hall_state, count_zeros,
    thot, I_now, motor_enabled, kill_switch_state, startup_disable,
    max_volts,
    thot_adc, I_adc, thot_buff, I_buff, tbuff_i, thot_instant,
    timer_thot, timer_idle, idle_itr,
    now,                    \* millis(): the monotonic clock
    HALT_IN,                \* level of the active-low halt line
    pc,                     \* "boot" before setup() has run, then "loop";
                            \* another value when functions are called in
                            \* any order (one value for each set of functions)
    op,                     \* the call the last step made
    log, ev,                \* output writes and events of the last step
    ret,                    \* return value of the last call (0/1)
    last_checks,            \* history: result of the most recent run_checks
    inv_run,                \* history: consecutive Invalid readings fed to motor_loop
    prev_step,              \* history: last_hall_state at the start of the last step
    hall_fault,             \* history: escalated and no run_checks passed since
    first_kill,             \* history: the reason of the first kill_motor since
                            \* power-on or the last enable_motor, -1 if none
    raw_hist,               \* history: the raw throttle samples of the last
                            \* process_thot calls, at most 10, the latest last
    n850,                   \* history: the number of process_thot calls so far
                            \* if each read the throttle as 850, else -1
    thot_runs,              \* history: the clock values at the last two
                            \* process_thot calls, the latest last
    checks_at,              \* history: the clock value at the last run_checks,
                            \* 0 before the first
    prev,                   \* history, kept when the self-tests are called in
                            \* any order: the call before the last one, its
                            \* result, max_volts after it, and its samples if
                            \* it was a check_fets
    boot_fets               \* history: how the FET test in the simple test
                            \* program's setup() ended, "none" before it

vars == << pinH, pinL, H_states, L_states, HALL_states, hall_state,
           last_hall_state, count_zeros, thot, I_now, motor_enabled,
           kill_switch_state, startup_disable, max_volts, thot_adc, I_adc,
           thot_buff, I_buff, tbuff_i, thot_instant, timer_thot, timer_idle,
           idle_itr, now, HALT_IN, pc, op, log, ev, ret, last_checks, inv_run,
           prev_step, hall_fault, first_kill, raw_hist, n850, thot_runs,
           checks_at, prev, boot_fets >>

-----------------------------------------------------------------------------
(* Program constants *)

U == 0
V == 1
W == 2
Phases == {U, V, W}

Isense_kill_limit == 200
idle_itr_sleep == 100
THOT_ADC_MIN == 180
THOT_ADC_MAX == 850
CRITITAL_LOW_VOLTS == 7
\* VOLTS_ADC_FACTOR is 12.31; comparisons against it are done in hundredths
VOLTS_ADC_FACTOR_x100 == 1231

AllOff3 == [i \in Phases |-> 0]

-----------------------------------------------------------------------------
(* Bounds of the model *)

\* motor_loop accepts a further Invalid reading only while count_zeros is
\* below this bound (the escalation limit is 100, so 101 and more are reached)
MaxZeros == 102
\* millis() returns at most this
MaxMillis == 101
\* millis() returns at most this when the current is followed over
\* several throttle periods
MaxRunMillis == 202
\* process_thot calls are counted up to this
MaxThotCalls == 12
\* when the functions are called in any order, motor_loop accepts a further
\* Invalid reading only while count_zeros is below this bound
MaxOpsZeros == 2
\* millis() returns at most this when the throttle periods are followed
MaxClockMillis == 404
\* with the throttle released, the clock advances by at most this many idle
\* periods (the sleep threshold is 100 idle iterations)
MaxIdlePeriods == 101

-----------------------------------------------------------------------------
(* Output primitives.  Each appends the write and the outputs after it.   *)

Snap(t, fn, kind, i, v) ==
    [fn |-> fn, kind |-> kind, i |-> i, v |-> v,
     pinH |-> t.pinH, pinL |-> t.pinL,
     H_states |-> t.H_states, L_states |-> t.L_states]

\* digitalWrite(pin, v): any non-zero v is HIGH; a high-side pin that is
\* HIGH conducts all the time, which is duty 255
digitalWriteH(s, fn, i, v) ==
    LET lvl == IF v = 0 THEN 0 ELSE 255
        t == [s EXCEPT !.pinH[i] = lvl]
    IN [t EXCEPT !.log = Append(@, Snap(t, fn, "pinH", i, lvl))]

digitalWriteL(s, fn, i, v) ==
    LET lvl == IF v = 0 THEN 0 ELSE 1
        t == [s EXCEPT !.pinL[i] = lvl]
    IN [t EXCEPT !.log = Append(@, Snap(t, fn, "pinL", i, lvl))]

\* analogWrite(pin, duty) on a high-side pin
analogWriteH(s, fn, i, duty) ==
    LET t == [s EXCEPT !.pinH[i] = duty]
    IN [t EXCEPT !.log = Append(@, Snap(t, fn, "pinH", i, duty))]

setH(s, fn, i, v) ==
    LET t == [s EXCEPT !.H_states[i] = v]
    IN [t EXCEPT !.log = Append(@, Snap(t, fn, "H_states", i, v))]

setL(s, fn, i, v) ==
    LET t == [s EXCEPT !.L_states[i] = v]
    IN [t EXCEPT !.log = Append(@, Snap(t, fn, "L_states", i, v))]

Event(s, e, a, b) == [s EXCEPT !.ev = Append(@, [e |-> e, a |-> a, b |-> b])]

\* y, with x evaluated first.  TLC evaluates an operator's argument where it
\* is first used; a call sequence is evaluated statement by statement, as
\* the program runs it, by naming each intermediate state here.
Then(x, y) == IF x = x THEN y ELSE x

-----------------------------------------------------------------------------
(* io.ino: hall decoder *)

\* a faulty variant: the pattern (1,0,1) decoded as step 5
hall_decode_101_as_5(h) ==
    IF h[U] # 0 /\ h[V] = 0 /\ h[W] = 0 THEN 1
    ELSE IF h[U] # 0 /\ h[V] # 0 /\ h[W] = 0 THEN 2
    ELSE IF h[U] = 0 /\ h[V] # 0 /\ h[W] = 0 THEN 3
    ELSE IF h[U] = 0 /\ h[V] # 0 /\ h[W] # 0 THEN 4
    ELSE IF h[W] # 0 /\ h[V] = 0 THEN 5
    ELSE 0

\* a faulty variant: 1-1-1 gets a code of its own
hall_decode_111_as_7(h) ==
    IF h[U] # 0 /\ h[V] = 0 /\ h[W] = 0 THEN 1
    ELSE IF h[U] # 0 /\ h[V] # 0 /\ h[W] = 0 THEN 2
    ELSE IF h[U] = 0 /\ h[V] # 0 /\ h[W] = 0 THEN 3
    ELSE IF h[U] = 0 /\ h[V] # 0 /\ h[W] # 0 THEN 4
    ELSE IF h[U] = 0 /\ h[V] = 0 /\ h[W] # 0 THEN 5
    ELSE IF h[U] # 0 /\ h[V] = 0 /\ h[W] # 0 THEN 6
    ELSE IF h[U] # 0 /\ h[V] # 0 /\ h[W] # 0 THEN 7
    ELSE 0

hall_decode(h) ==
    IF h[U] # 0 /\ h[V] = 0 /\ h[W] = 0 THEN 1
    ELSE IF h[U] # 0 /\ h[V] # 0 /\ h[W] = 0 THEN 2
    ELSE IF h[U] = 0 /\ h[V] # 0 /\ h[W] = 0 THEN 3
    ELSE IF h[U] = 0 /\ h[V] # 0 /\ h[W] # 0 THEN 4
    ELSE IF h[U] = 0 /\ h[V] = 0 /\ h[W] # 0 THEN 5
    ELSE IF h[U] # 0 /\ h[V] = 0 /\ h[W] # 0 THEN 6
    ELSE 0

\* h: the levels digitalRead returns for the three hall pins
get_hall_state(s, h) ==
    [s EXCEPT !.HALL_states = h, !.ret = hall_decode(h)]

-----------------------------------------------------------------------------
(* io.ino: audio.  The tone synthesis itself is outside the model; a call *)
(* is recorded with its arguments.                                        *)

buzz_loop(s, delay, counts) == Event(s, "buzz_loop", delay, counts)

beep_tones(a, kind) ==
    CASE kind = 1 ->
           buzz_loop(buzz_loop(buzz_loop(buzz_loop(buzz_loop(a,
              500, 100), 400, 100), 300, 100), 200, 100), 600, 500)
      [] kind = 2 ->
           buzz_loop(buzz_loop(buzz_loop(a, 300, 300), 350, 200), 400, 100)
      [] kind = 3 ->
           buzz_loop(buzz_loop(buzz_loop(buzz_loop(a,
              350, 500), 410, 500), 460, 400), 510, 400)
      [] kind = 0 ->
           buzz_loop(buzz_loop(buzz_loop(buzz_loop(buzz_loop(buzz_loop(buzz_loop(a,
              200, 100), 180, 100), 160, 100), 140, 200), 120, 200), 100, 300), 80, 400)
      [] OTHER -> a

beep(s, kind) == beep_tones(Event(s, "beep", kind, 0), kind)

-----------------------------------------------------------------------------
(* motor.ino.  A function is split where its statements follow one        *)
(* another: f continues in f_2, f_3, ... with the state reached so far.   *)

\* a faulty variant: L_states[i] is not cleared
motor_off_phase_keeps_L(s, i) ==
    setH(digitalWriteL(digitalWriteH(s, "motor_off_state", i, 0),
                       "motor_off_state", i, 0),
         "motor_off_state", i, 0)

motor_off_phase(s, i) ==
    setL(setH(digitalWriteL(digitalWriteH(s, "motor_off_state", i, 0),
                            "motor_off_state", i, 0),
              "motor_off_state", i, 0),
         "motor_off_state", i, 0)

motor_off_state(s) ==
    motor_off_phase(motor_off_phase(motor_off_phase(s, U), V), W)

\* a faulty variant: the side to switch on is written first
drive_io_phase_on_first(s, i) ==
    IF s.H_states[i] = 1
    THEN digitalWriteL(analogWriteH(s, "drive_io_update", i, s.thot),
                       "drive_io_update", i, 0)
    ELSE digitalWriteH(digitalWriteL(s, "drive_io_update", i, s.L_states[i]),
                       "drive_io_update", i, 0)

drive_io_phase(s, i) ==
    IF s.H_states[i] = 1
    THEN analogWriteH(digitalWriteL(s, "drive_io_update", i, 0),
                      "drive_io_update", i, s.thot)
    ELSE digitalWriteL(digitalWriteH(s, "drive_io_update", i, 0),
                       "drive_io_update", i, s.L_states[i])

drive_io_update(s) ==
    drive_io_phase(drive_io_phase(drive_io_phase(s, U), V), W)

\* lines 191-197, after motor_off_state
kill_motor_2(a, reason) ==
    [a EXCEPT !.motor_enabled = FALSE,
              !.kill_switch_state = IF @ = 10 \/ @ = 0 THEN reason ELSE @]

kill_motor(s, reason) ==
    kill_motor_2(motor_off_state(Event(s, "kill_motor", reason, 0)), reason)

enable_motor(s) ==
    [motor_off_state(Event(s, "enable_motor", 0, 0))
       EXCEPT !.motor_enabled = TRUE, !.kill_switch_state = 10]

\* a faulty variant: below the limit the outputs keep a drive command
hall_invalid_drives(a) ==
    IF a.count_zeros > 100 THEN kill_motor(a, 2)
    ELSE setL(setH(a, "motor_loop", U, 1), "motor_loop", V, 1)

\* a faulty variant: the escalation one reading early
hall_invalid_early(a) ==
    IF a.count_zeros >= 100 THEN kill_motor(a, 2) ELSE motor_off_state(a)

\* the default case of the switch (lines 99-104), count_zeros incremented
hall_invalid(a) ==
    IF a.count_zeros > 100 THEN kill_motor(a, 2) ELSE motor_off_state(a)

\* a faulty variant: step 1 returns the current through W instead of V
commutate_1_low_W(s) ==
    CASE s.hall_state = 1 ->
           setH(setH(setL(s, "motor_loop", W, 1), "motor_loop", V, 0), "motor_loop", U, 1)
      [] s.hall_state = 2 ->
           setL(setL(setH(s, "motor_loop", U, 1), "motor_loop", V, 0), "motor_loop", W, 1)
      [] s.hall_state = 3 ->
           setH(setH(setL(s, "motor_loop", W, 1), "motor_loop", U, 0), "motor_loop", V, 1)
      [] s.hall_state = 4 ->
           setL(setL(setH(s, "motor_loop", V, 1), "motor_loop", W, 0), "motor_loop", U, 1)
      [] s.hall_state = 5 ->
           setH(setH(setL(s, "motor_loop", U, 1), "motor_loop", V, 0), "motor_loop", W, 1)
      [] s.hall_state = 6 ->
           setL(setL(setH(s, "motor_loop", W, 1), "motor_loop", U, 0), "motor_loop", V, 1)
      [] OTHER ->
           hall_invalid([s EXCEPT !.count_zeros = (@ + 1) % 65536])

\* the switch of motor_loop (lines 50-105), in the order of its assignments
commutate(s) ==
    CASE s.hall_state = 1 ->
           setH(setH(setL(s, "motor_loop", V, 1), "motor_loop", W, 0), "motor_loop", U, 1)
      [] s.hall_state = 2 ->
           setL(setL(setH(s, "motor_loop", U, 1), "motor_loop", V, 0), "motor_loop", W, 1)
      [] s.hall_state = 3 ->
           setH(setH(setL(s, "motor_loop", W, 1), "motor_loop", U, 0), "motor_loop", V, 1)
      [] s.hall_state = 4 ->
           setL(setL(setH(s, "motor_loop", V, 1), "motor_loop", W, 0), "motor_loop", U, 1)
      [] s.hall_state = 5 ->
           setH(setH(setL(s, "motor_loop", U, 1), "motor_loop", V, 0), "motor_loop", W, 1)
      [] s.hall_state = 6 ->
           setL(setL(setH(s, "motor_loop", W, 1), "motor_loop", U, 0), "motor_loop", V, 1)
      [] OTHER ->
           hall_invalid([s EXCEPT !.count_zeros = (@ + 1) % 65536])

\* lines 107-122: drive the outputs, remember the step
motor_loop_4(d) ==
    [drive_io_update(d) EXCEPT !.last_hall_state = d.hall_state]

\* lines 50-105
motor_loop_3(c) == Then(c, motor_loop_4(commutate(c)))

\* a faulty variant: a step change only resets the invalid count
motor_loop_2_no_off(b) ==
    motor_loop_3(IF b.last_hall_state # b.hall_state
                 THEN [b EXCEPT !.count_zeros = 0]
                 ELSE b)

\* lines 41-47: on a step change, all off and the invalid count reset
motor_loop_2(b) ==
    motor_loop_3(IF b.last_hall_state # b.hall_state
                 THEN [motor_off_state(b) EXCEPT !.count_zeros = 0]
                 ELSE b)

\* line 39, a: the state get_hall_state returns in
motor_loop_1(a) ==
    motor_loop_2(Event([a EXCEPT !.hall_state = a.ret], "motor_loop", a.ret, 0))

motor_loop(s, h) == motor_loop_1(get_hall_state(s, h))

-----------------------------------------------------------------------------
(* thot.ino *)

\* a faulty variant: the last slot is left out
Sum10_without_9(f) == f[0] + f[1] + f[2] + f[3] + f[4] + f[5] + f[6] + f[7] + f[8]

Sum10(f) == f[0] + f[1] + f[2] + f[3] + f[4] + f[5] + f[6] + f[7] + f[8] + f[9]

\* a faulty variant: no upper clamp, the quotient wraps in the uint8_t
thot_map_no_max(a) ==
    IF a < THOT_ADC_MIN THEN 0
    ELSE (((a - THOT_ADC_MIN) * 255) \div (THOT_ADC_MAX - THOT_ADC_MIN)) % 256

\* the target duty for a filtered ADC value (lines 58-63); the float
\* quotient is truncated by the conversion to uint8_t
thot_map(a) ==
    IF a < THOT_ADC_MIN THEN 0
    ELSE IF a > THOT_ADC_MAX THEN 255
    ELSE ((a - THOT_ADC_MIN) * 255) \div (THOT_ADC_MAX - THOT_ADC_MIN)

\* a faulty variant: the index wraps one slot early
thot_push_wraps_at_9(s, raw_t, raw_i) ==
    [s EXCEPT !.thot_buff[s.tbuff_i] = raw_t,
              !.I_buff[s.tbuff_i] = raw_i,
              !.tbuff_i = IF @ + 1 >= 9 THEN 0 ELSE @ + 1]

\* lines 44-46: the samples go into the buffers, the index advances
thot_push(s, raw_t, raw_i) ==
    [s EXCEPT !.thot_buff[s.tbuff_i] = raw_t,
              !.I_buff[s.tbuff_i] = raw_i,
              !.tbuff_i = IF @ + 1 >= 10 THEN 0 ELSE @ + 1]

\* lines 48-63: the averages and the target duty
thot_filter(s) ==
    [s EXCEPT !.thot_adc = Sum10(s.thot_buff) \div 10,
              !.I_adc = Sum10(s.I_buff) \div 10,
              !.I_now = Sum10(s.I_buff) \div 10,
              !.thot_instant = thot_map(Sum10(s.thot_buff) \div 10)]

\* lines 64-65: the ramp
thot_ramp(s) ==
    IF s.thot < s.thot_instant
    THEN [s EXCEPT !.thot = (@ + 1) % 256]
    ELSE [s EXCEPT !.thot = s.thot_instant]

\* line 67; the event keeps the duty the ramp gave and the target
thot_override(s) ==
    Event([s EXCEPT !.thot = 255], "process_thot", s.thot, s.thot_instant)

\* raw_t, raw_i: what analogRead returns for the throttle and current pins
process_thot(s, raw_t, raw_i) ==
    thot_override(thot_ramp(thot_filter(
       thot_push(Event(s, "thot_before", s.thot, raw_t), raw_t, raw_i))))

\* reads: ten analogRead results, indexed 0..9
analogAvg(reads) == Sum10(reads) \div 10

\* a faulty variant: a sample at the threshold fails
check_thot_2_at_100(a, t1, t2, t3) ==
    IF t1 <= 100 \/ t2 <= 100 \/ t3 <= 100
    THEN [a EXCEPT !.ret = 0]
    ELSE [a EXCEPT !.ret = 1]

\* lines 89-93, a: the three averages are in the events
check_thot_2(a, t1, t2, t3) ==
    IF t1 < 100 \/ t2 < 100 \/ t3 < 100
    THEN [a EXCEPT !.ret = 0]
    ELSE [a EXCEPT !.ret = 1]

\* rd: the three sample vectors of the throttle pin
check_thot(s, rd) ==
    check_thot_2(Event(Event(Event(s, "read_thot", 1, analogAvg(rd[1])),
                             "read_thot", 2, analogAvg(rd[2])),
                       "read_thot", 3, analogAvg(rd[3])),
                 analogAvg(rd[1]), analogAvg(rd[2]), analogAvg(rd[3]))

-----------------------------------------------------------------------------
(* checks.ino *)

\* comparisons with _CRITITAL_LOW_VOLTS_ADC, which is 7 * 12.31 = 86.17
BelowCritical(v) == v * 100 < CRITITAL_LOW_VOLTS * VOLTS_ADC_FACTOR_x100
AboveCritical(v) == v * 100 > CRITITAL_LOW_VOLTS * VOLTS_ADC_FACTOR_x100

\* a faulty variant: the high side is left on while the low side is tested
check_fets_phase_high_stays(s, f, i) ==
    Event(
      motor_off_state(
        digitalWriteL(
          Event(
            digitalWriteL(
              Event(
                digitalWriteH(
                  digitalWriteL(s, "check_fets", i, 0),
                  "check_fets", i, 1),
                "vxh", i, analogAvg(f.h[i])),
              "check_fets", i, 1),
            "vxl", i, analogAvg(f.l[i])),
          "check_fets", i, 0)),
      "F", i, analogAvg(f.h[i]))

\* the first loop's body for phase i (lines 153-168); f.h[i] and f.l[i] are
\* the samples analogAvg reads with the high and with the low side on
check_fets_phase(s, f, i) ==
    Event(
      motor_off_state(
        digitalWriteL(
          Event(
            digitalWriteL(
              digitalWriteH(
                digitalWriteH(
                  Event(
                    digitalWriteH(
                      digitalWriteL(s, "check_fets", i, 0),
                      "check_fets", i, 1),
                    "vxh", i, analogAvg(f.h[i])),
                  "check_fets", i, 0),
                "check_fets", i, 0),
              "check_fets", i, 1),
            "vxl", i, analogAvg(f.l[i])),
          "check_fets", i, 0)),
      "F", i, analogAvg(f.h[i]))

\* a faulty variant: the low-side comparison comes first
check_fets_judge_2_low_first(a, vh, vl, i) ==
    IF vl > 0 THEN [Event(a, "E", 22, i) EXCEPT !.ret = 0]
    ELSE IF BelowCritical(vh) THEN [Event(a, "E", 21, i) EXCEPT !.ret = 0]
    ELSE [a EXCEPT !.ret = 1]

\* lines 183-192 for one phase, max_volts updated
check_fets_judge_2(a, vh, vl, i) ==
    IF BelowCritical(vh) THEN [Event(a, "E", 21, i) EXCEPT !.ret = 0]
    ELSE IF vl > 0 THEN [Event(a, "E", 22, i) EXCEPT !.ret = 0]
    ELSE [a EXCEPT !.ret = 1]

\* a faulty variant: max_volts takes the sample whatever it held
check_fets_judge_last_sample(s, f, i) ==
    check_fets_judge_2([s EXCEPT !.max_volts = analogAvg(f.h[i])],
                       analogAvg(f.h[i]), analogAvg(f.l[i]), i)

\* a faulty variant: max_volts is a running mean of the samples
check_fets_judge_averages(s, f, i) ==
    check_fets_judge_2([s EXCEPT !.max_volts = (@ + analogAvg(f.h[i])) \div 2],
                       analogAvg(f.h[i]), analogAvg(f.l[i]), i)

\* line 181
check_fets_judge(s, f, i) ==
    check_fets_judge_2([s EXCEPT !.max_volts = IF analogAvg(f.h[i]) > @
                                                 THEN analogAvg(f.h[i]) ELSE @],
                       analogAvg(f.h[i]), analogAvg(f.l[i]), i)

\* the second loop (lines 179-195), left at the first failure
check_fets_7(a, f) == IF a.ret = 0 THEN a ELSE check_fets_judge(a, f, W)
check_fets_6(a, f) == IF a.ret = 0 THEN a ELSE check_fets_7(check_fets_judge(a, f, V), f)
check_fets_5(a, f) == Then(a, check_fets_6(check_fets_judge(a, f, U), f))
\* the first loop (lines 151-177)
check_fets_4(a, f) == Then(a, check_fets_5(check_fets_phase(a, f, W), f))
check_fets_3(a, f) == Then(a, check_fets_4(check_fets_phase(a, f, V), f))
check_fets_2(a, f) == Then(a, check_fets_3(check_fets_phase(a, f, U), f))

check_fets(s, f) ==
    check_fets_2(motor_off_state(Event(s, "check_fets", 0, 0)), f)

\* a faulty variant: the bound 437 belongs to the band below it
battery_beeps_437_below(s) ==
    IF ~AboveCritical(s.max_volts) THEN s
    ELSE IF s.max_volts < 420
    THEN buzz_loop(buzz_loop(buzz_loop(buzz_loop(s, 500, 300), 500, 300), 500, 300), 500, 300)
    ELSE IF s.max_volts <= 437
    THEN buzz_loop(buzz_loop(buzz_loop(s, 500, 300), 500, 300), 500, 300)
    ELSE IF s.max_volts < 455
    THEN buzz_loop(buzz_loop(s, 500, 300), 500, 300)
    ELSE IF s.max_volts < 470
    THEN buzz_loop(s, 500, 300)
    ELSE s

\* the battery warning (lines 108-139)
battery_beeps(s) ==
    IF ~AboveCritical(s.max_volts) THEN s
    ELSE IF s.max_volts < 420
    THEN buzz_loop(buzz_loop(buzz_loop(buzz_loop(s, 500, 300), 500, 300), 500, 300), 500, 300)
    ELSE IF s.max_volts < 437
    THEN buzz_loop(buzz_loop(buzz_loop(s, 500, 300), 500, 300), 500, 300)
    ELSE IF s.max_volts < 455
    THEN buzz_loop(buzz_loop(s, 500, 300), 500, 300)
    ELSE IF s.max_volts < 470
    THEN buzz_loop(s, 500, 300)
    ELSE s

\* return r
run_checks_ret(s, r) == [Event(s, "run_checks_ret", r, 0) EXCEPT !.ret = r]

\* a failed check: the code is printed, the pattern played, false returned
run_checks_fail(s, code, run_beeps, kind) ==
    run_checks_ret(IF run_beeps THEN beep(Event(s, "E", code, 0), kind)
                   ELSE Event(s, "E", code, 0), 0)

\* lines 67-73: E85 plays two patterns
run_checks_fail85(s, run_beeps) ==
    run_checks_ret(IF run_beeps THEN beep(beep(Event(s, "E", 85, 0), 3), 1)
                   ELSE Event(s, "E", 85, 0), 0)

\* lines 108-142
run_checks_7(d) == run_checks_ret(Event(battery_beeps(d), "ALL_OK", 0, 0), 1)

\* lines 99-105, d: the state check_thot returns in
run_checks_6(d, run_beeps) ==
    IF d.ret = 0 THEN run_checks_fail(d, 10, run_beeps, 2) ELSE run_checks_7(d)

\* a faulty variant: the run goes on to check_thot after an Invalid reading
run_checks_5_goes_on(c, run_beeps, in) ==
    run_checks_6(check_thot(Event(c, "check_thot", 0, 0), in.thot), run_beeps)

\* lines 90-96, c: the state get_hall_state returns in
run_checks_5(c, run_beeps, in) ==
    IF c.ret = 0 THEN run_checks_fail(c, 75, run_beeps, 2)
    ELSE run_checks_6(check_thot(Event(c, "check_thot", 0, 0), in.thot), run_beeps)

\* lines 83-88, b: the state the last check_fets returns in
run_checks_4(b, run_beeps, in) ==
    IF b.ret = 0 THEN run_checks_fail(b, 20, run_beeps, 3)
    ELSE run_checks_5(get_hall_state(Event(b, "hall_check", 0, 0), in.hall),
                      run_beeps, in)

\* lines 77-81: up to three attempts
run_checks_fets_3(b, fets) == IF b.ret = 1 THEN b ELSE check_fets(b, fets[3])

\* a faulty variant: the second attempt is made whatever the first returned
run_checks_fets_2_no_stop(a, fets) ==
    run_checks_fets_3(check_fets(a, fets[2]), fets)

run_checks_fets_2(a, fets) ==
    IF a.ret = 1 THEN a ELSE run_checks_fets_3(check_fets(a, fets[2]), fets)
run_checks_fets(s, fets) == run_checks_fets_2(check_fets(s, fets[1]), fets)

\* a faulty variant: the first read alone fails the check
run_checks_3_first_read(a, run_beeps, in) ==
    IF analogAvg(in.isense[1]) > 10
    THEN run_checks_fail85(a, run_beeps)
    ELSE run_checks_4(run_checks_fets(a, in.fets), run_beeps, in)

\* lines 61-76: the idle current, sampled twice
run_checks_3(a, run_beeps, in) ==
    IF analogAvg(in.isense[1]) > 10 /\ analogAvg(in.isense[2]) > 10
    THEN run_checks_fail85(a, run_beeps)
    ELSE run_checks_4(run_checks_fets(a, in.fets), run_beeps, in)

\* lines 52-56: the halt line is read and nothing done with it; the event
\* "idle_current" keeps what the two reads of the current pin average to
run_checks_2(a, run_beeps, in) ==
    Then(a, run_checks_3(Event(Event(a, "halt_read", in.halt, 0),
                               "idle_current", analogAvg(in.isense[1]),
                               analogAvg(in.isense[2])), run_beeps, in))

\* in: what the pins read during the call; the event keeps run_beeps
run_checks(s, run_beeps, in) ==
    run_checks_2(motor_off_state(Event(s, "run_checks",
                                       IF run_beeps THEN 1 ELSE 0, 0)),
                 run_beeps, in)

-----------------------------------------------------------------------------
(* code_nano_main.ino *)

\* line 368
setup_3(d) == [d EXCEPT !.last_hall_state = d.ret]

\* lines 347-366: the result of run_checks selects an empty block
setup_2(c, in) == Then(c, setup_3(get_hall_state(c, in.hall)))

setup(s, in) ==
    setup_2(run_checks([motor_off_state(s) EXCEPT !.motor_enabled = FALSE,
                                                  !.startup_disable = TRUE],
                       TRUE, in.chk), in)

\* millis() and the timers are unsigned long; the clock is monotonic, the
\* timers hold earlier clock values, and no difference wraps in the model
UL(x) == x

\* lines 410-419
loop_disabled_3(b) ==
    Event(IF b.idle_itr > idle_itr_sleep THEN Event(b, "delay", 200000, 0) ELSE b,
          "delay", 10000, 0)

\* lines 399-420, a: the state run_checks returns in
loop_disabled_2(a) ==
    IF a.ret = 1
    THEN [(IF ~a.startup_disable
           THEN [(IF ~a.motor_enabled THEN beep(a, 0) ELSE a)
                   EXCEPT !.motor_enabled = TRUE]
           ELSE Event(a, "delay", 300000, 0))
            EXCEPT !.idle_itr = 0]
    ELSE loop_disabled_3([motor_off_state(a) EXCEPT !.motor_enabled = FALSE,
                              !.idle_itr = (@ + 1) % 65536])

\* lines 396-421
loop_disabled(s, in) ==
    loop_disabled_2(run_checks(Event(s, "delay", 100, 0), FALSE, in.chk))

\* lines 441-443, b: the state run_checks returns in
loop_idle_3(b) == IF b.ret = 0 THEN kill_motor(b, 0) ELSE b

\* lines 437-452, a: all off, idle timer restarted
loop_idle_2(a, in) ==
    IF a.idle_itr % 5 = 0 /\ a.idle_itr < idle_itr_sleep
    THEN loop_idle_3(run_checks(a, TRUE, in.chk))
    ELSE IF a.idle_itr >= idle_itr_sleep
    THEN Event(Event(a, "Sleep", 0, 0), "delay", 20000, 0)
    ELSE Event(a, "Idle", 0, 0)

\* lines 432-461, s: timer_thot just set, the event "idle_timer" appended
loop_idle(s, in) ==
    IF s.thot = 0
    THEN IF UL(s.timer_thot - s.timer_idle) > 100000
         THEN loop_idle_2([motor_off_state(s) EXCEPT !.timer_idle = s.timer_thot,
                               !.idle_itr = (@ + 1) % 65536], in)
         ELSE s
    ELSE [s EXCEPT !.timer_idle = s.timer_thot, !.idle_itr = 0]

\* a faulty variant: the throttle is processed from 100 ms on
loop_throttle_at_100(s, in) ==
    IF UL(in.now - s.timer_thot) >= 100
    THEN loop_idle(Event([process_thot(s, in.raw_t, in.raw_i)
                            EXCEPT !.timer_thot = in.now],
                         "idle_timer", UL(in.now - s.timer_idle), s.idle_itr), in)
    ELSE s

\* lines 427-462; in.now is what millis() returns in this iteration.  The
\* event keeps the time since timer_idle and the idle count as the throttle
\* period found them.
loop_throttle(s, in) ==
    IF UL(in.now - s.timer_thot) > 100
    THEN loop_idle(Event([process_thot(s, in.raw_t, in.raw_i)
                            EXCEPT !.timer_thot = in.now],
                         "idle_timer", UL(in.now - s.timer_idle), s.idle_itr), in)
    ELSE s

\* lines 425-465
loop_enabled(s, in) == motor_loop(loop_throttle(s, in), in.hall)

\* lines 396, 425
loop_2(a, in) ==
    IF ~a.motor_enabled THEN loop_disabled(a, in) ELSE loop_enabled(a, in)

\* line 385
loop(s, in) == loop_2([s EXCEPT !.motor_enabled = TRUE], in)

-----------------------------------------------------------------------------
(* code_BLDC_simple: the simple test program.  Its get_hall_state,         *)
(* motor_off_state, drive_io_update, check_fets and the six cases of       *)
(* motor_loop's switch have the statements of the main firmware's; its     *)
(* kill_motor and its setup and loop differ.                               *)

\* code_BLDC_simple.ino lines 342-346: outputs off and a printed line
kill_motor_simple(s, reason) ==
    motor_off_state(Event(s, "kill_motor", reason, 0))

\* lines 279-285 and 288-289: the default case, then the outputs driven
motor_loop_simple_4(d) ==
    motor_loop_4(IF d.count_zeros > 100 THEN kill_motor_simple(d, 2)
                 ELSE motor_off_state(d))

\* lines 242-289
motor_loop_simple_3(c) ==
    IF c.hall_state \in 1..6 THEN motor_loop_3(c)
    ELSE Then(c, motor_loop_simple_4([c EXCEPT !.count_zeros = (@ + 1) % 65536]))

\* lines 236-239
motor_loop_simple_2(b) ==
    motor_loop_simple_3(IF b.last_hall_state # b.hall_state
                        THEN [motor_off_state(b) EXCEPT !.count_zeros = 0]
                        ELSE b)

\* line 233, a: the state get_hall_state returns in
motor_loop_simple_1(a) ==
    motor_loop_simple_2(Event([a EXCEPT !.hall_state = a.ret], "motor_loop", a.ret, 0))

motor_loop_simple(s, h) == motor_loop_simple_1(get_hall_state(s, h))

\* lines 153-159
loop_simple(s, h) == motor_loop_simple([s EXCEPT !.thot = 10], h)

\* line 144
setup_simple_4(d) == [d EXCEPT !.last_hall_state = d.ret]

\* lines 140-144, c: the state get_hall_state returns in
setup_simple_3(c, in) ==
    setup_simple_4(get_hall_state(IF c.ret = 0 THEN kill_motor_simple(c, in.reason)
                                  ELSE c, in.halls[3]))

\* a faulty variant: a failed FET test does not stop the program
setup_simple_2_goes_on(b, in) ==
    setup_simple_3(get_hall_state(IF b.ret = 0 THEN kill_motor_simple(b, in.reason)
                                  ELSE b, in.halls[2]), in)

\* lines 134-137, b: the state check_fets returns in; the endless loop of
\* line 136 is the event "while_1", after which nothing more is executed
setup_simple_2(b, in) ==
    IF b.ret = 0
    THEN Event(kill_motor_simple(b, in.reason), "while_1", 0, 0)
    ELSE setup_simple_3(get_hall_state(b, in.halls[2]), in)

\* lines 89-145; in.halls: what the hall pins read at lines 131, 140 and
\* 144, in.fets: the samples of the FET test, in.reason: the byte the
\* address of kill_motor's string argument is narrowed to
setup_simple(s, in) ==
    setup_simple_2(check_fets(Event(get_hall_state(motor_off_state(s), in.halls[1]),
                                    "hall_test", 0, 0), in.fets), in)

-----------------------------------------------------------------------------
(* The state as a record, and back *)

\* the globals' initializers (code_nano_main.ino lines 285-296 and 374-377,
\* thot.ino lines 20-25, motor.ino lines 13-14, checks.ino line 19)
InitRec ==
    [pinH |-> AllOff3, pinL |-> AllOff3,
     H_states |-> AllOff3, L_states |-> AllOff3, HALL_states |-> AllOff3,
     hall_state |-> 0, last_hall_state |-> 0, count_zeros |-> 0,
     thot |-> 0, I_now |-> 0, motor_enabled |-> FALSE,
     kill_switch_state |-> 0, startup_disable |-> TRUE, max_volts |-> 0,
     thot_adc |-> 0, I_adc |-> 0,
     thot_buff |-> [k \in 0..9 |-> 0], I_buff |-> [k \in 0..9 |-> 0],
     tbuff_i |-> 0, thot_instant |-> 0,
     timer_thot |-> 0, timer_idle |-> 0, idle_itr |-> 0,
     log |-> << >>, ev |-> << >>, ret |-> 0]

\* the current state, with the write and event lists of a new call empty
St ==
    [pinH |-> pinH, pinL |-> pinL,
     H_states |-> H_states, L_states |-> L_states, HALL_states |-> HALL_states,
     hall_state |-> hall_state, last_hall_state |-> last_hall_state,
     count_zeros |-> count_zeros,
     thot |-> thot, I_now |-> I_now, motor_enabled |-> motor_enabled,
     kill_switch_state |-> kill_switch_state,
     startup_disable |-> startup_disable, max_volts |-> max_volts,
     thot_adc |-> thot_adc, I_adc |-> I_adc,
     thot_buff |-> thot_buff, I_buff |-> I_buff,
     tbuff_i |-> tbuff_i, thot_instant |-> thot_instant,
     timer_thot |-> timer_thot, timer_idle |-> timer_idle, idle_itr |-> idle_itr,
     log |-> << >>, ev |-> << >>, ret |-> 0]

EvIdx(e, name) == {k \in DOMAIN e : e[k].e = name}
MaxOf(S) == CHOOSE x \in S : \A y \in S : y <= x

\* the result of the last run_checks among the events e, else old
LastChecks(e, old) ==
    IF EvIdx(e, "run_checks_ret") = {} THEN old
    ELSE IF e[MaxOf(EvIdx(e, "run_checks_ret"))].a = 1 THEN "pass" ELSE "fail"

\* the number of consecutive Invalid readings motor_loop has been fed
InvRun(e, old) ==
    IF EvIdx(e, "motor_loop") = {} THEN old
    ELSE IF e[MaxOf(EvIdx(e, "motor_loop"))].a = 0 THEN old + 1 ELSE 0

\* whether motor_loop has escalated (kill_motor(2)) and no run_checks has
\* passed since
HallFault(e, old) ==
    LET K == {k \in EvIdx(e, "kill_motor") : e[k].a = 2}
        P == {k \in EvIdx(e, "run_checks_ret") : e[k].a = 1}
    IN IF K \cup P = {} THEN old ELSE MaxOf(K \cup P) \in K

MinOf(S) == CHOOSE x \in S : \A y \in S : x <= y

\* the reason of the first kill_motor among the events e that no
\* enable_motor follows, if old is cleared or an enable_motor is among them
FirstKill(e, old) ==
    LET En == EvIdx(e, "enable_motor")
        K == {k \in EvIdx(e, "kill_motor") : \A j \in En : j < k}
    IN IF En = {} /\ old # -1 THEN old
       ELSE IF K = {} THEN -1
       ELSE e[MinOf(K)].a

\* the last 10 of the samples h followed by x
Last10(h, x) == IF Len(h) < 10 THEN Append(h, x) ELSE Append(Tail(h), x)

\* process_thot is called at most once in a step
RawHist(e, old) ==
    IF EvIdx(e, "thot_before") = {} THEN old
    ELSE Last10(old, e[MaxOf(EvIdx(e, "thot_before"))].b)

N850(e, old) ==
    IF EvIdx(e, "thot_before") = {} THEN old
    ELSE IF old >= 0 /\ e[MaxOf(EvIdx(e, "thot_before"))].b = 850
    THEN (IF old < MaxThotCalls THEN old + 1 ELSE old)
    ELSE -1

\* the clock values old of the last process_thot calls after a step at
\* clock value t with the events e
ThotRuns(e, old, t) ==
    IF EvIdx(e, "thot_before") = {} THEN old
    ELSE IF Len(old) < 2 THEN Append(old, t)
    ELSE Append(Tail(old), t)

\* the samples <<vxh, vxl>> of the check_fets among the events e of a step
\* that called check_fets alone
FetSamples(e) ==
    << [i \in Phases |-> e[CHOOSE k \in EvIdx(e, "vxh") : e[k].a = i].b],
       [i \in Phases |-> e[CHOOSE k \in EvIdx(e, "vxl") : e[k].a = i].b] >>

\* what is kept of the last call when the next one is made
Prev(o, rt, mv, e) ==
    [op |-> o, ret |-> rt, max_volts |-> mv,
     vx |-> IF o = "check_fets" THEN FetSamples(e) ELSE << >>]

\* how the FET test of the simple test program's setup() ended, after a
\* call o with the events e
BootFets(o, e, old) ==
    IF o # "setup_simple" THEN old
    ELSE IF \E k \in EvIdx(e, "E") : e[k].a \in {21, 22} THEN "fail" ELSE "pass"

\* the step to the state r, made by call o at clock value t with halt level hl
Commit(r, o, t, hl) ==
    /\ pinH' = r.pinH /\ pinL' = r.pinL
    /\ H_states' = r.H_states /\ L_states' = r.L_states
    /\ HALL_states' = r.HALL_states
    /\ hall_state' = r.hall_state /\ last_hall_state' = r.last_hall_state
    /\ count_zeros' = r.count_zeros
    /\ thot' = r.thot /\ I_now' = r.I_now /\ motor_enabled' = r.motor_enabled
    /\ kill_switch_state' = r.kill_switch_state
    /\ startup_disable' = r.startup_disable /\ max_volts' = r.max_volts
    /\ thot_adc' = r.thot_adc /\ I_adc' = r.I_adc
    /\ thot_buff' = r.thot_buff /\ I_buff' = r.I_buff
    /\ tbuff_i' = r.tbuff_i /\ thot_instant' = r.thot_instant
    /\ timer_thot' = r.timer_thot /\ timer_idle' = r.timer_idle
    /\ idle_itr' = r.idle_itr
    /\ log' = r.log /\ ev' = r.ev /\ ret' = r.ret
    /\ now' = t /\ HALT_IN' = hl /\ op' = o
    /\ last_checks' = LastChecks(r.ev, last_checks)
    /\ inv_run' = InvRun(r.ev, inv_run)
    /\ prev_step' = last_hall_state
    /\ hall_fault' = HallFault(r.ev, hall_fault)
    /\ first_kill' = FirstKill(r.ev, first_kill)
    /\ raw_hist' = RawHist(r.ev, raw_hist)
    /\ n850' = N850(r.ev, n850)
    /\ thot_runs' = ThotRuns(r.ev, thot_runs, t)
    /\ checks_at' = IF EvIdx(r.ev, "run_checks") = {} THEN checks_at ELSE t
    /\ prev' = IF pc = "checks" THEN Prev(op, ret, max_volts, ev) ELSE prev
    /\ boot_fets' = BootFets(o, r.ev, boot_fets)

-----------------------------------------------------------------------------
(* Inputs *)

HallBits == [Phases -> {0, 1}]
Const10(v) == [k \in 0..9 |-> v]
Hall(u, v, w) == [i \in Phases |-> IF i = U THEN u ELSE IF i = V THEN v ELSE w]

\* samples of one FET test: a healthy bridge at supply reading v, a
\* high side that does not pull phase i up, a low side that does not pull
\* phase i down
FetGood(v) ==
    [h |-> [i \in Phases |-> Const10(v)], l |-> [i \in Phases |-> Const10(0)]]
FetHighFault(i) ==
    [h |-> [j \in Phases |-> Const10(IF j = i THEN 86 ELSE 430)],
     l |-> [j \in Phases |-> Const10(0)]]
FetLowFault(i) ==
    [h |-> [j \in Phases |-> Const10(430)],
     l |-> [j \in Phases |-> Const10(IF j = i THEN 1 ELSE 0)]]

\* healthy hardware
ChkDefault ==
    [halt |-> 1, isense |-> <<Const10(0), Const10(0)>>,
     fets |-> <<FetGood(430), FetGood(430), FetGood(430)>>,
     hall |-> Hall(1, 0, 0),
     thot |-> <<Const10(100), Const10(100), Const10(100)>>]

\* the inputs of run_checks: one for each of its outcomes and for each
\* number of check_fets attempts
CheckInputs ==
    { ChkDefault,
      [ChkDefault EXCEPT !.isense = <<Const10(11), Const10(11)>>],
      [ChkDefault EXCEPT !.isense = <<Const10(11), Const10(10)>>],
      [ChkDefault EXCEPT !.fets = <<FetHighFault(W), FetLowFault(V), FetHighFault(W)>>],
      [ChkDefault EXCEPT !.fets = <<FetLowFault(W), FetGood(430), FetGood(430)>>],
      [ChkDefault EXCEPT !.fets = <<FetHighFault(V), FetLowFault(U), FetGood(430)>>],
      [ChkDefault EXCEPT !.hall = Hall(0, 0, 0)],
      [ChkDefault EXCEPT !.hall = Hall(1, 1, 1)],
      [ChkDefault EXCEPT !.thot = <<Const10(100), Const10(99), Const10(100)>>] }

\* the inputs of run_checks when it is called from any state
OpsCheckInputs ==
    { ChkDefault,
      [ChkDefault EXCEPT !.fets = <<FetHighFault(W), FetLowFault(V), FetHighFault(W)>>] }

\* the duties motor_loop is called with
DutyValues == {0, 10, 255}

\* the reasons kill_motor is called with: hall fault, external halt
KillReasons == {2, 3}

\* sample vectors of the throttle pin for check_thot: at the threshold,
\* below it, and single samples below it with the average at it
ThotVectors ==
    { Const10(100), Const10(99), [k \in 0..9 |-> IF k = 0 THEN 109 ELSE 99] }
ThotTestInputs ==
    { <<a, b, c>> : a \in ThotVectors, b \in ThotVectors, c \in ThotVectors }

\* samples of one FET test: each high-side sample just below or just above
\* the threshold 86.17 or at a 33 V supply, each low-side sample 0 or 1;
\* and the samples the comment in check_fets lists (lines 169-176)
FetTestInputs ==
    { [h |-> [i \in Phases |-> Const10(vh[i])],
       l |-> [i \in Phases |-> Const10(vl[i])]] :
        vh \in [Phases -> {86, 87, 399}], vl \in [Phases -> {0, 1}] }
    \cup { [h |-> [i \in Phases |->
                       Const10(IF i = U THEN 399 ELSE IF i = V THEN 397 ELSE 396)],
            l |-> [i \in Phases |-> Const10(0)]] }

\* supply readings at and beside the bounds of the battery bands
BatteryVolts == {419, 420, 430, 437, 455, 470}

\* samples of a FET test called alone
ChecksFetInputs ==
    { FetGood(430), FetGood(470), FetHighFault(W), FetLowFault(V) }

\* the inputs of run_checks when the self-tests are called in any order:
\* each outcome, and healthy hardware at each supply reading
ChecksInputs ==
    CheckInputs
    \cup { [ChkDefault EXCEPT !.fets = <<FetGood(v), FetGood(v), FetGood(v)>>] :
              v \in BatteryVolts }

\* the calls of run_checks: with the patterns played on every input, and
\* silent (as loop() calls it while the motor is disabled) on two
ChecksCalls ==
    { [chk |-> c, run_beeps |-> TRUE] : c \in ChecksInputs }
    \cup { [chk |-> c, run_beeps |-> FALSE] : c \in OpsCheckInputs }

\* throttle and current samples when process_thot is called alone: the
\* upper throttle bound and the largest ADC reading
ThotSamples == { [t |-> 850, i |-> 0], [t |-> 1023, i |-> 1023] }

\* every reason code of kill_motor (motor.ino lines 179-186) but OK
AllKillReasons == {0, 1, 2, 3}

\* throttle and current samples when the current is followed: none, and
\* full throttle at the largest current reading
RunSamples == { [t |-> 0, i |-> 0], [t |-> 850, i |-> 1023] }

\* throttle and current samples of one process_thot call
LoopSamples == { [t |-> 0, i |-> 0], [t |-> 850, i |-> 201] }

\* the hall readings of a wheel that stands or is pushed between two steps
IdleHalls == { Hall(1, 0, 0), Hall(1, 1, 0) }

\* the least clock advance that exceeds the idle period of 100000 (line 434)
IdlePeriod == 100001

\* the clock advances by nothing, by a throttle period, or by more
ClockSteps == {0, 100, 101}

\* the clock advances by nothing or by more than a throttle period
TimeSteps == {0, 101}
ClockOk(t) == t <= MaxMillis

-----------------------------------------------------------------------------
(* The main firmware: setup(), then loop() forever *)

InitVars ==
    /\ pinH = InitRec.pinH /\ pinL = InitRec.pinL
    /\ H_states = InitRec.H_states /\ L_states = InitRec.L_states
    /\ HALL_states = InitRec.HALL_states
    /\ hall_state = InitRec.hall_state
    /\ last_hall_state = InitRec.last_hall_state
    /\ count_zeros = InitRec.count_zeros
    /\ thot = InitRec.thot /\ I_now = InitRec.I_now
    /\ motor_enabled = InitRec.motor_enabled
    /\ kill_switch_state = InitRec.kill_switch_state
    /\ startup_disable = InitRec.startup_disable
    /\ max_volts = InitRec.max_volts
    /\ thot_adc = InitRec.thot_adc /\ I_adc = InitRec.I_adc
    /\ thot_buff = InitRec.thot_buff /\ I_buff = InitRec.I_buff
    /\ tbuff_i = InitRec.tbuff_i /\ thot_instant = InitRec.thot_instant
    /\ timer_thot = InitRec.timer_thot /\ timer_idle = InitRec.timer_idle
    /\ idle_itr = InitRec.idle_itr
    /\ log = << >> /\ ev = << >> /\ ret = 0
    /\ now = 0 /\ HALT_IN = 1 /\ op = "init"
    /\ last_checks = "none" /\ inv_run = 0 /\ prev_step = 0
    /\ hall_fault = FALSE
    /\ first_kill = -1 /\ raw_hist = << >> /\ n850 = 0
    /\ thot_runs = << >>
    /\ checks_at = 0
    /\ prev = Prev("init", 0, 0, << >>)
    /\ boot_fets = "none"

Init == InitVars /\ pc = "boot"

\* a further Invalid reading is fed only below the bound
HallOk(h) == hall_decode(h) # 0 \/ count_zeros < MaxZeros

Setup ==
    /\ pc = "boot"
    /\ pc' = "loop"
    /\ \E c \in CheckInputs, h \in HallBits :
          Commit(setup(St, [chk |-> c, hall |-> h]), "setup", now, c.halt)

\* whether this iteration gets to run_checks (decided on default inputs)
LoopChecks(in) == EvIdx(loop(St, in).ev, "run_checks") # {}

Loop ==
    /\ pc = "loop"
    /\ pc' = pc
    /\ \E h \in HallBits, dt \in TimeSteps, hl \in {0, 1} :
          /\ HallOk(h)
          /\ ClockOk(now + dt)
          /\ \E smp \in IF UL(now + dt - timer_thot) > 100
                        THEN LoopSamples ELSE {[t |-> 0, i |-> 0]} :
               LET in == [now |-> now + dt, hall |-> h, raw_t |-> smp.t,
                          raw_i |-> smp.i, chk |-> ChkDefault]
               IN \E c \in IF LoopChecks(in) THEN CheckInputs ELSE {ChkDefault} :
                     Commit(loop(St, [in EXCEPT !.chk = c]), "loop", now + dt, hl)

Next == Setup \/ Loop

Spec == Init /\ [][Next]_vars

-----------------------------------------------------------------------------
(* The functions of motor.ino and run_checks called in any order, with the *)
(* duty set between calls, as both programs' loops do                       *)

InitOps == InitVars /\ pc = "ops"

OpsHallOk(h) == hall_decode(h) # 0 \/ count_zeros < MaxOpsZeros

OpMotorLoop ==
    /\ pc = "ops" /\ pc' = pc
    /\ \E h \in HallBits :
          OpsHallOk(h) /\ Commit(motor_loop(St, h), "motor_loop", now, HALT_IN)

OpMotorOff ==
    /\ pc = "ops" /\ pc' = pc
    /\ Commit(motor_off_state(St), "motor_off_state", now, HALT_IN)

OpKillMotor ==
    /\ pc = "ops" /\ pc' = pc
    /\ \E reason \in KillReasons :
          Commit(kill_motor(St, reason), "kill_motor", now, HALT_IN)

OpRunChecks ==
    /\ pc = "ops" /\ pc' = pc
    /\ \E c \in OpsCheckInputs :
          Commit(run_checks(St, FALSE, c), "run_checks", now, c.halt)

\* thot is assigned (process_thot in the main firmware, loop() in the simple one)
OpThrottle ==
    /\ pc = "ops" /\ pc' = pc
    /\ \E d \in DutyValues \ {thot} :
          Commit([St EXCEPT !.thot = d], "throttle", now, HALT_IN)

NextOps ==
    OpMotorLoop \/ OpMotorOff \/ OpKillMotor \/ OpRunChecks \/ OpThrottle

SpecOps == InitOps /\ [][NextOps]_vars

-----------------------------------------------------------------------------
(* The main firmware on healthy hardware with the halt line released, over *)
(* several throttle periods                                                *)

InitRun == InitVars /\ pc = "run_boot"

RunSetup ==
    /\ pc = "run_boot"
    /\ pc' = "run"
    /\ \E h \in HallBits :
          Commit(setup(St, [chk |-> ChkDefault, hall |-> h]), "setup", now, 1)

RunLoop ==
    /\ pc = "run"
    /\ pc' = pc
    /\ \E h \in HallBits, dt \in TimeSteps :
          /\ OpsHallOk(h)
          /\ now + dt <= MaxRunMillis
          /\ \E smp \in IF UL(now + dt - timer_thot) > 100
                        THEN RunSamples ELSE {[t |-> 0, i |-> 0]} :
               Commit(loop(St, [now |-> now + dt, hall |-> h, raw_t |-> smp.t,
                                raw_i |-> smp.i, chk |-> ChkDefault]),
                      "loop", now + dt, 1)

NextRun == RunSetup \/ RunLoop

SpecRun == InitRun /\ [][NextRun]_vars

-----------------------------------------------------------------------------
(* kill_motor with any reason, enable_motor and motor_loop in any order *)

InitKill == InitVars /\ pc = "kill"

KillOpKillMotor ==
    /\ pc = "kill" /\ pc' = pc
    /\ \E reason \in AllKillReasons :
          Commit(kill_motor(St, reason), "kill_motor", now, HALT_IN)

KillOpEnableMotor ==
    /\ pc = "kill" /\ pc' = pc
    /\ Commit(enable_motor(St), "enable_motor", now, HALT_IN)

KillOpMotorLoop ==
    /\ pc = "kill" /\ pc' = pc
    /\ \E h \in HallBits :
          OpsHallOk(h) /\ Commit(motor_loop(St, h), "motor_loop", now, HALT_IN)

NextKill == KillOpKillMotor \/ KillOpEnableMotor \/ KillOpMotorLoop

SpecKill == InitKill /\ [][NextKill]_vars

-----------------------------------------------------------------------------
(* process_thot called again and again from power-on *)

InitThot == InitVars /\ pc = "thot"

ThotOpProcess ==
    /\ pc = "thot" /\ pc' = pc
    /\ \E smp \in ThotSamples :
          Commit(process_thot(St, smp.t, smp.i), "process_thot", now, HALT_IN)

NextThot == ThotOpProcess

SpecThot == InitThot /\ [][NextThot]_vars

-----------------------------------------------------------------------------
(* The sensor tests check_thot and check_fets called in any order *)

InitTests == InitVars /\ pc = "tests"

TestOpCheckThot ==
    /\ pc = "tests" /\ pc' = pc
    /\ \E rd \in ThotTestInputs :
          Commit(check_thot(St, rd), "check_thot", now, HALT_IN)

TestOpCheckFets ==
    /\ pc = "tests" /\ pc' = pc
    /\ \E f \in FetTestInputs :
          Commit(check_fets(St, f), "check_fets", now, HALT_IN)

NextTests == TestOpCheckThot \/ TestOpCheckFets

SpecTests == InitTests /\ [][NextTests]_vars

-----------------------------------------------------------------------------
(* The main firmware with the throttle released: it reads 0 at every     *)
(* process_thot call, and the clock either stands or advances by more    *)
(* than the idle period, so that now \div IdlePeriod is the number of     *)
(* idle periods that have passed since power-on                          *)

InitIdle == InitVars /\ pc = "idle_boot"

IdleSetup ==
    /\ pc = "idle_boot"
    /\ pc' = "idle"
    /\ \E c \in CheckInputs, h \in IdleHalls :
          Commit(setup(St, [chk |-> c, hall |-> h]), "setup", now, c.halt)

IdleLoop ==
    /\ pc = "idle"
    /\ pc' = pc
    /\ \E h \in IdleHalls, dt \in {0, IdlePeriod} :
          /\ now + dt <= MaxIdlePeriods * IdlePeriod
          /\ Commit(loop(St, [now |-> now + dt, hall |-> h, raw_t |-> 0,
                              raw_i |-> 0, chk |-> ChkDefault]),
                    "loop", now + dt, 1)

NextIdle == IdleSetup \/ IdleLoop

SpecIdle == InitIdle /\ [][NextIdle]_vars

-----------------------------------------------------------------------------
(* The main firmware on healthy hardware at full throttle, the clock       *)
(* advancing by a throttle period or a little more between iterations      *)

InitClock == InitVars /\ pc = "clock_boot"

ClockSetup ==
    /\ pc = "clock_boot"
    /\ pc' = "clock"
    /\ \E h \in IdleHalls :
          Commit(setup(St, [chk |-> ChkDefault, hall |-> h]), "setup", now, 1)

ClockLoop ==
    /\ pc = "clock"
    /\ pc' = pc
    /\ \E h \in IdleHalls, dt \in ClockSteps :
          /\ now + dt <= MaxClockMillis
          /\ Commit(loop(St, [now |-> now + dt, hall |-> h, raw_t |-> 850,
                              raw_i |-> 0, chk |-> ChkDefault]),
                    "loop", now + dt, 1)

NextClock == ClockSetup \/ ClockLoop

SpecClock == InitClock /\ [][NextClock]_vars

-----------------------------------------------------------------------------
(* run_checks and check_fets called in any order within one session *)

InitChecks == InitVars /\ pc = "checks"

ChkOpRunChecks ==
    /\ pc = "checks" /\ pc' = pc
    /\ \E c \in ChecksCalls :
          Commit(run_checks(St, c.run_beeps, c.chk), "run_checks", now, c.chk.halt)

ChkOpCheckFets ==
    /\ pc = "checks" /\ pc' = pc
    /\ \E f \in ChecksFetInputs :
          Commit(check_fets(St, f), "check_fets", now, HALT_IN)

NextChecks == ChkOpRunChecks \/ ChkOpCheckFets

SpecChecks == InitChecks /\ [][NextChecks]_vars

-----------------------------------------------------------------------------
(* The simple test program: setup(), then loop() forever, unless setup()  *)
(* ends in its endless loop                                               *)

\* the hall pins read the same three times while the wheel stands, or
\* change between the reads while it is pushed
SimpleHalls ==
    {<<h, h, h>> : h \in HallBits}
    \cup {<<Hall(1, 0, 0), Hall(0, 0, 0), Hall(1, 1, 0)>>,
          <<Hall(1, 1, 1), Hall(1, 1, 0), Hall(0, 0, 0)>>}

\* bytes a string literal's address may be narrowed to
ReasonBytes == {0, 255}

InitSimple == InitVars /\ pc = "simple_boot"

SimpleSetup ==
    /\ pc = "simple_boot"
    /\ \E hs \in SimpleHalls, f \in ChecksFetInputs, rs \in ReasonBytes :
          LET r == setup_simple(St, [halls |-> hs, fets |-> f, reason |-> rs])
          IN /\ Commit(r, "setup_simple", now, HALT_IN)
             /\ pc' = IF EvIdx(r.ev, "while_1") # {} THEN "simple_halted"
                      ELSE "simple_loop"

SimpleLoop ==
    /\ pc = "simple_loop" /\ pc' = pc
    /\ \E h \in HallBits :
          HallOk(h) /\ Commit(loop_simple(St, h), "loop_simple", now, HALT_IN)

NextSimple == SimpleSetup \/ SimpleLoop

SpecSimple == InitSimple /\ [][NextSimple]_vars

-----------------------------------------------------------------------------
(* Properties *)

\* phase i conducts from both rails: high side HIGH or PWM duty > 0, low side HIGH
ShootThrough(ph, pl) == \E i \in Phases : ph[i] > 0 /\ pl[i] = 1

AllPinsOff == \A i \in Phases : pinH[i] = 0 /\ pinL[i] = 0

\* the snapshot has all six outputs and all commanded states off
AllOffSnap(x) ==
    \A i \in Phases :
       x.pinH[i] = 0 /\ x.pinL[i] = 0 /\ x.H_states[i] = 0 /\ x.L_states[i] = 0

\* C1: in the main firmware no phase has its high side active while its low
\* side is HIGH, neither after a call nor after any single write of
\* drive_io_update, motor_off_state, check_fets, kill_motor; drive_io_update
\* writes a phase's low side off immediately before its high-side duty when
\* the high side is commanded, and its high side off immediately before the
\* low-side command otherwise.
C1_NoShootThrough ==
    /\ ~ShootThrough(pinH, pinL)
    /\ \A k \in DOMAIN log :
          /\ ~ShootThrough(log[k].pinH, log[k].pinL)
          /\ (log[k].fn = "drive_io_update" /\ log[k].kind = "pinH"
                /\ log[k].H_states[log[k].i] = 1)
             => /\ k > 1
                /\ log[k - 1].fn = "drive_io_update" /\ log[k - 1].kind = "pinL"
                /\ log[k - 1].i = log[k].i /\ log[k - 1].v = 0
          /\ (log[k].fn = "drive_io_update" /\ log[k].kind = "pinL"
                /\ log[k].H_states[log[k].i] = 0)
             => /\ k > 1
                /\ log[k - 1].fn = "drive_io_update" /\ log[k - 1].kind = "pinH"
                /\ log[k - 1].i = log[k].i /\ log[k - 1].v = 0
                /\ log[k].v = log[k].L_states[log[k].i]

\* a loop iteration that has driven a step at full duty, after setup ran
\* check_fets
C1_Witness ==
    /\ op = "loop" /\ last_checks = "pass"
    /\ \E i \in Phases : pinH[i] = 255
    /\ \E j \in Phases : pinL[j] = 1
    /\ \E k \in DOMAIN log : log[k].fn = "drive_io_update" /\ log[k].v = 255

\* C2: whatever motor_loop, motor_off_state, kill_motor and run_checks calls
\* were made with whatever hall readings, no phase has H_states and L_states
\* both 1.
C2_StatesExclusive ==
    \A i \in Phases : ~(H_states[i] = 1 /\ L_states[i] = 1)

\* motor_loop has moved from one valid step to another, after kill_motor
\* and run_checks have been called
C2_Witness ==
    /\ op = "motor_loop" /\ prev_step \in 1..6 /\ hall_state \in 1..6
    /\ prev_step # hall_state
    /\ kill_switch_state # 0 /\ last_checks # "none"
    /\ \E i \in Phases : H_states[i] = 1
    /\ \E i \in Phases : L_states[i] = 1

\* C3 (as claimed): an output is energized only when the most recent
\* run_checks passed; after a failing run_checks all six outputs are off
\* until a run_checks passes.
C3_GatedBySelfTest == last_checks # "pass" => AllPinsOff

\* the step the table of the hall decoder gives for the bits (u, v, w)
HallTable(u, v, w) ==
    CASE <<u, v, w>> = <<1, 0, 0>> -> 1
      [] <<u, v, w>> = <<1, 1, 0>> -> 2
      [] <<u, v, w>> = <<0, 1, 0>> -> 3
      [] <<u, v, w>> = <<0, 1, 1>> -> 4
      [] <<u, v, w>> = <<0, 0, 1>> -> 5
      [] <<u, v, w>> = <<1, 0, 1>> -> 6
      [] <<u, v, w>> = <<0, 0, 0>> -> 0
      [] <<u, v, w>> = <<1, 1, 1>> -> 0

\* C4: the step motor_loop gets from get_hall_state is the table's step for
\* the three bits read, whatever the state before the call; run_checks
\* reports E75 exactly when the table gives Invalid for the bits it read.
C4_HallTable ==
    /\ op = "motor_loop"
       => hall_state = HallTable(HALL_states[U], HALL_states[V], HALL_states[W])
    /\ (op = "run_checks" /\ EvIdx(ev, "hall_check") # {})
       => ((\E k \in EvIdx(ev, "E") : ev[k].a = 75)
           <=> HallTable(HALL_states[U], HALL_states[V], HALL_states[W]) = 0)

\* motor_loop has read (1,0,1) after another step
C4_Witness ==
    /\ op = "motor_loop" /\ HALL_states = Hall(1, 0, 1) /\ hall_state = 6
    /\ prev_step # 6

\* the phase whose high side, and the phase whose low side, step st drives
HighOf(st) == CASE st \in {1, 2} -> U [] st \in {3, 4} -> V [] st \in {5, 6} -> W
LowOf(st) == CASE st \in {4, 5} -> U [] st \in {1, 6} -> V [] st \in {2, 3} -> W

\* C5: after a motor_loop call that read a valid step with duty thot, the
\* high side of the step's high phase carries thot, the low side of the
\* step's low phase (another phase) is HIGH, and the other four outputs are
\* off.
C5_StepOutputs ==
    (op = "motor_loop" /\ hall_state \in 1..6)
    => /\ HighOf(hall_state) # LowOf(hall_state)
       /\ pinH[HighOf(hall_state)] = thot
       /\ pinL[LowOf(hall_state)] = 1
       /\ \A i \in Phases \ {HighOf(hall_state)} : pinH[i] = 0
       /\ \A i \in Phases \ {LowOf(hall_state)} : pinL[i] = 0

\* step 4 was read after another valid step, at duty 10
C5_Witness ==
    /\ op = "motor_loop" /\ hall_state = 4 /\ prev_step \in 1..3 /\ thot = 10
    /\ pinH[V] = 10 /\ pinL[U] = 1

\* C6: when motor_loop reads a step other than the step of the previous
\* call, its writes reach a point with all six outputs and all commanded
\* states off, and no write before that point switches anything on.
C6_OffBeforeNewStep ==
    (op = "motor_loop" /\ prev_step # hall_state)
    => /\ \E k \in DOMAIN log : AllOffSnap(log[k])
       /\ \A j \in DOMAIN log :
             log[j].v > 0 => \E k \in 1..(j - 1) : AllOffSnap(log[k])

\* step 3 was read after step 6 at a duty above 0
C6_Witness ==
    /\ op = "motor_loop" /\ prev_step = 6 /\ hall_state = 3 /\ thot > 0
    /\ pinH[V] = thot /\ pinL[W] = 1

\* C7: after a loop iteration whose motor_loop read an Invalid pattern all
\* six outputs are off, at any value of the invalid counter.
C7_InvalidOff ==
    (op = "loop" /\ hall_state = 0) => AllPinsOff

\* an Invalid reading above the escalation limit, the duty being 255
C7_Witness ==
    /\ op = "loop" /\ hall_state = 0 /\ count_zeros > 100 /\ thot = 255
    /\ AllPinsOff

\* the last step called kill_motor with this reason
Killed(reason) == \E k \in EvIdx(ev, "kill_motor") : ev[k].a = reason

\* C8: a loop iteration that fed motor_loop the 1st to 100th consecutive
\* Invalid reading did not call kill_motor; the one that fed the 101st
\* called kill_motor(2), which left the kill reason 2, the motor disabled and
\* all outputs off.
C8_Escalation ==
    op = "loop"
    => /\ inv_run \in 1..100 => EvIdx(ev, "kill_motor") = {}
       /\ inv_run = 101
          => /\ Killed(2) /\ kill_switch_state = 2 /\ ~motor_enabled
             /\ AllPinsOff

\* the 101st consecutive Invalid reading has been fed
C8_Witness ==
    /\ op = "loop" /\ inv_run = 101 /\ Killed(2) /\ kill_switch_state = 2

\* C9 (as claimed): once motor_loop has escalated, no phase is energized
\* before a run_checks passes.
C9_StaysFaulted == hall_fault => AllPinsOff

\* C10 (as claimed): a loop iteration during which the halt line is low ends
\* with kill reason 3 and all outputs off.
C10_HaltKills ==
    (op = "loop" /\ HALT_IN = 0) => (kill_switch_state = 3 /\ AllPinsOff)

\* C11 (as claimed): a loop iteration that ends with the filtered current
\* above Isense_kill_limit has killed the motor with reason 1 and left all
\* six outputs off.
C11_OvercurrentKills ==
    (op = "loop" /\ I_now > Isense_kill_limit)
    => (kill_switch_state = 1 /\ ~motor_enabled /\ AllPinsOff)

\* C12 (as claimed): once kill_motor has recorded a reason, the stored
\* reason is that first reason until enable_motor is called.
C12_FirstFaultSticky == first_kill # -1 => kill_switch_state = first_kill

\* C13 (as claimed): when the most recent run_checks passed and a loop
\* iteration has driven an output, the stored fault code is the OK value 10.
C13_FaultCleared ==
    (op = "loop" /\ last_checks = "pass" /\ ~AllPinsOff)
    => kill_switch_state = 10

\* the commanded duty at the start of the process_thot call of the last step
ThotBefore == ev[MaxOf(EvIdx(ev, "thot_before"))].a

\* C14 (as claimed): a process_thot call that found thot below the target
\* duty leaves thot one higher; a call that found thot at or above the
\* target leaves thot at the target.
C14_Ramp ==
    op = "process_thot"
    => /\ ThotBefore < thot_instant => thot = ThotBefore + 1
       /\ ThotBefore >= thot_instant => thot = thot_instant

\* the largest value of the 10-bit ADC (thot.ino line 20)
AdcMax == 1023

\* the target duty the mapping is to give for the filtered value a
ClaimedDuty(a) ==
    IF a < 180 THEN 0
    ELSE IF a > 850 THEN 255
    ELSE ((a - 180) * 255) \div 670

\* C15: the target duty process_thot computes is the claimed duty of the
\* filtered throttle value and lies in 0..255; over all ADC values the
\* mapping is the claimed one and is non-decreasing.
C15_ThrottleMap ==
    /\ op = "process_thot"
       => thot_instant = ClaimedDuty(thot_adc) /\ thot_instant \in 0..255
    /\ op = "init"
       => /\ \A a \in 0..AdcMax :
                thot_map(a) = ClaimedDuty(a) /\ thot_map(a) \in 0..255
          /\ \A a \in 0..(AdcMax - 1) : thot_map(a) <= thot_map(a + 1)

\* a filtered value between the bounds after samples of both kinds
C15_Witness ==
    /\ op = "process_thot" /\ thot_adc \in 181..849 /\ thot_instant \in 1..254
    /\ \E k \in DOMAIN raw_hist : raw_hist[k] = 850
    /\ \E k \in DOMAIN raw_hist : raw_hist[k] = 1023

\* the k-th of the samples h, 0 beyond them
SampleAt(h, k) == IF k <= Len(h) THEN h[k] ELSE 0

\* the sum of at most 10 samples
SumOf(h) ==
    SampleAt(h, 1) + SampleAt(h, 2) + SampleAt(h, 3) + SampleAt(h, 4)
       + SampleAt(h, 5) + SampleAt(h, 6) + SampleAt(h, 7) + SampleAt(h, 8)
       + SampleAt(h, 9) + SampleAt(h, 10)

\* C16: after a process_thot call the filtered throttle value is the sum of
\* the most recent raw samples (at most 10, 0 for each missing one) divided
\* by 10 and floored; the k-th latest sample is in the k-th slot behind the
\* buffer index, and a slot never written holds 0.
C16_MovingAverage ==
    op = "process_thot"
    => /\ thot_adc = SumOf(raw_hist) \div 10
       /\ \A k \in 1..Len(raw_hist) :
             thot_buff[(tbuff_i + 10 - k) % 10] = raw_hist[Len(raw_hist) + 1 - k]
       /\ \A j \in Len(raw_hist)..9 : thot_buff[j] = 0

\* the buffer has wrapped: at least 13 calls, samples of both kinds in it
C16_Witness ==
    /\ op = "process_thot" /\ Len(raw_hist) = 10 /\ tbuff_i = 3
    /\ raw_hist[1] = 1023 /\ raw_hist[10] = 850 /\ thot_buff[3] = 1023
    /\ n850 = -1

\* C17: while every process_thot call since power-on has read the throttle
\* as 850, the target duty is below 255 after each of the first 9 calls and
\* 255 after the 10th and each later call.
C17_Startup850 ==
    (op = "process_thot" /\ n850 >= 1)
    => /\ n850 <= 9 => thot_instant < 255
       /\ n850 >= 10 => thot_instant = 255

\* the 11th call of 850 in a row
C17_Witness ==
    op = "process_thot" /\ n850 = 11 /\ thot_instant = 255 /\ thot_adc = 850

\* C18: check_thot takes three averaged samples and returns false exactly
\* when one of them is below 100.
C18_CheckThot ==
    op = "check_thot"
    => /\ Cardinality(EvIdx(ev, "read_thot")) = 3
       /\ ret = 0 <=> \E k \in EvIdx(ev, "read_thot") : ev[k].b < 100

\* every sample is exactly 100, one of them the average of 109 and nine 99s
C18_Witness ==
    /\ op = "check_thot" /\ ret = 1
    /\ \A k \in EvIdx(ev, "read_thot") : ev[k].b = 100
    /\ Cardinality(EvIdx(ev, "read_thot")) = 3

\* the samples check_fets took of phase i in the last step
Vxh(i) == ev[CHOOSE k \in EvIdx(ev, "vxh") : ev[k].a = i].b
Vxl(i) == ev[CHOOSE k \in EvIdx(ev, "vxl") : ev[k].a = i].b

\* the comparisons of the last check_fets, numbered in phase order with the
\* high side first, that fail
FailingComparisons ==
    {2 * i : i \in {j \in Phases :
                      Vxh(j) * 100 < CRITITAL_LOW_VOLTS * VOLTS_ADC_FACTOR_x100}}
    \cup {2 * i + 1 : i \in {j \in Phases : Vxl(j) > 0}}

\* the error codes check_fets printed, as <<code, phase>>
FetCodes == {<<ev[k].a, ev[k].b>> : k \in EvIdx(ev, "E")}

\* C19: check_fets returns true exactly when no comparison fails; when it
\* returns false it has printed one code, E21 of the phase if the first
\* failing comparison is a high-side one and E22 of the phase if it is a
\* low-side one.
C19_CheckFets ==
    op = "check_fets"
    => /\ ret = 1 <=> FailingComparisons = {}
       /\ ret = 1 => FetCodes = {}
       /\ ret = 0
          => FetCodes = {<<21 + (MinOf(FailingComparisons) % 2),
                           MinOf(FailingComparisons) \div 2>>}

\* the low side of V fails, and after it both sides of W: E22 of V
C19_Witness ==
    /\ op = "check_fets" /\ ret = 0 /\ FetCodes = {<<22, V>>}
    /\ FailingComparisons = {3, 4, 5}

\* C20 (as claimed): a FET test with a high-side sample of 400 or less, the
\* low-side samples being 0, fails with the high-side fault E21; with every
\* high-side sample 401 or more it passes.
C20_Threshold400 ==
    (op = "check_fets" /\ \A i \in Phases : Vxl(i) = 0)
    => /\ (\E i \in Phases : Vxh(i) <= 400)
          => (ret = 0 /\ \E c \in FetCodes : c[1] = 21)
       /\ (\A i \in Phases : Vxh(i) >= 401) => ret = 1

\* the last step printed the error code
Printed(code) == \E k \in EvIdx(ev, "E") : ev[k].a = code

\* the check_fets call at event k of the last step printed E21 or E22
\* before the next check_fets call, which is how it returns false
AttemptFailed(k) ==
    \E j \in EvIdx(ev, "E") :
       /\ j > k /\ ev[j].a \in {21, 22}
       /\ \A m \in EvIdx(ev, "check_fets") : m > k => j < m

C22_MaxVoltsMonotone == max_volts >= prev.max_volts

\* a FET test that sampled 430 on every phase when max_volts was 470
C22_Witness ==
    /\ op = "check_fets" /\ prev.max_volts = 470 /\ max_volts = 470
    /\ \A i \in Phases : Vxh(i) = 430

\* the number of battery beeps (buzz_loop(500, 300)) of the last step
BeepBursts ==
    Cardinality({k \in EvIdx(ev, "buzz_loop") : ev[k].a = 500 /\ ev[k].b = 300})

\* C23 (as claimed): a run_checks call that passes with max_volts at 430
\* gives the 2-beep battery alert.
C23_Tier430 ==
    (op = "run_checks" /\ ret = 1 /\ max_volts = 430) => BeepBursts = 2

\* the number of beeps the battery warning gives when max_volts is v
BatteryBursts(v) ==
    Cardinality(EvIdx(battery_beeps([InitRec EXCEPT !.max_volts = v]).ev,
                      "buzz_loop"))

\* the number of beeps of the claimed bands
ClaimedBursts(v) ==
    IF v >= 470 THEN 0
    ELSE IF v >= 455 THEN 1
    ELSE IF v >= 437 THEN 2
    ELSE IF v >= 420 THEN 3
    ELSE 4

C25_ReadmeTable ==
    (op = "run_checks" /\ ret = 1)
    => /\ max_volts > 470 => BeepBursts = 1
       /\ max_volts \in 455..469 => BeepBursts = 2
       /\ max_volts \in 437..454 => BeepBursts = 3
       /\ max_volts < 420 => BeepBursts = 4

\* C29: a check_fets call that follows a check_fets call and takes the same
\* samples returns what the first returned (true on healthy hardware) and
\* leaves max_volts, and with it the number of battery beeps, as the first
\* left them.
C29_FetsIdempotent ==
    (op = "check_fets" /\ prev.op = "check_fets" /\ prev.vx = FetSamples(ev))
    => /\ ret = prev.ret
       /\ max_volts = prev.max_volts
       /\ BatteryBursts(max_volts) = BatteryBursts(prev.max_volts)

\* two passing FET tests in a row that sampled 470 on every phase
C29_Witness ==
    /\ op = "check_fets" /\ prev.op = "check_fets" /\ prev.vx = FetSamples(ev)
    /\ prev.ret = 1 /\ ret = 1 /\ max_volts = 470
    /\ \A i \in Phases : Vxh(i) = 470 /\ Vxl(i) = 0

\* the kinds of the patterns beep played in the last step
BeepKinds == {ev[k].a : k \in EvIdx(ev, "beep")}

\* C30 (as claimed): a run_checks call plays the severe pattern (kind 3)
\* only for a FET or hall fault (E20, E75); when it plays for a throttle
\* fault (E10) it plays the general pattern (kind 2) alone, and for an
\* overcurrent fault (E85) it plays the overload pattern (kind 1).
C30_AudioMapping ==
    op = "run_checks"
    => /\ 3 \in BeepKinds => (Printed(20) \/ Printed(75))
       /\ (Printed(10) /\ BeepKinds # {}) => BeepKinds = {2}
       /\ (Printed(85) /\ BeepKinds # {}) => 1 \in BeepKinds

\* the idle timer and the idle count as the throttle period of the last
\* step found them
IdleTimer == ev[MaxOf(EvIdx(ev, "idle_timer"))]

\* the last step was a loop iteration that processed the throttle, found
\* it at zero (target duty 0) and found the idle period over
IdleTimeout ==
    /\ op = "loop" /\ EvIdx(ev, "idle_timer") # {}
    /\ thot_instant = 0 /\ IdleTimer.a > 100000

\* C26 (as claimed): a loop iteration that finds the throttle at zero and
\* the idle period over increments the idle count, and runs run_checks
\* exactly when the new count is a multiple of 5 and below idle_itr_sleep.
C26_IdleCadence ==
    IdleTimeout
    => /\ idle_itr = IdleTimer.b + 1
       /\ EvIdx(ev, "run_checks") # {}
          <=> (idle_itr % 5 = 0 /\ idle_itr < idle_itr_sleep)

\* C27 (as claimed): a loop iteration that finds the throttle at zero and
\* the idle period over enters Sleep exactly when the idle count has reached
\* idle_itr_sleep; with the throttle released since power-on, the iteration
\* at the end of the 100th and of each later idle period enters Sleep.
C27_SleepAtThreshold ==
    IdleTimeout
    => /\ EvIdx(ev, "Sleep") # {} <=> idle_itr >= idle_itr_sleep
       /\ now >= idle_itr_sleep * IdlePeriod => EvIdx(ev, "Sleep") # {}

\* C28 (as claimed): when the last run_checks failed, no loop iteration
\* finds the throttle at zero and the idle period over five or more idle
\* periods after that run_checks without running run_checks again.
C28_RetriesSelfTest ==
    (IdleTimeout /\ last_checks = "fail") => now - checks_at < 5 * IdlePeriod

\* C31 (as claimed): a run_checks(false) call calls neither beep nor
\* buzz_loop.
C31_SilentRun ==
    (op = "run_checks" /\ ev[MinOf(EvIdx(ev, "run_checks"))].a = 0)
    => (EvIdx(ev, "beep") = {} /\ EvIdx(ev, "buzz_loop") = {})

\* C32: every loop iteration calls motor_loop once, whether or not it
\* called process_thot, and process_thot at most once; two successive
\* process_thot calls are more than 100 ms of millis() apart.
C32_NotStarved ==
    /\ op = "loop"
       => /\ Cardinality(EvIdx(ev, "motor_loop")) = 1
          /\ Cardinality(EvIdx(ev, "thot_before")) <= 1
    /\ Len(thot_runs) = 2 => thot_runs[2] - thot_runs[1] > 100

\* an iteration 100 ms after a process_thot call that called motor_loop
\* and not process_thot, a first process_thot call having been made
\* earlier
C32_Witness ==
    /\ op = "loop" /\ EvIdx(ev, "thot_before") = {}
    /\ Cardinality(EvIdx(ev, "motor_loop")) = 1
    /\ Len(thot_runs) = 2 /\ now - thot_runs[2] = 100

\* C33 (as claimed): after a check_fets call max_volts is at least each of
\* the three high-side samples the call took.
C33_MaxCoversSamples ==
    op = "check_fets" => \A i \in Phases : max_volts >= Vxh(i)

\* C34 (as claimed): every run_checks call, passing or failing, gives the
\* battery beeps that belong to max_volts (none if max_volts is not above
\* the critical threshold).
C34_TierOnEveryRun ==
    op = "run_checks" => BeepBursts = BatteryBursts(max_volts)

\* what the two reads of the current pin averaged to in the run_checks call
\* of the last step
IdleCurrent == ev[MinOf(EvIdx(ev, "idle_current"))]

\* every check of the run_checks call of the last step was made and passed
AllChecksPass ==
    /\ ~(IdleCurrent.a > 10 /\ IdleCurrent.b > 10)
    /\ EvIdx(ev, "check_fets") # {}
    /\ ~AttemptFailed(MaxOf(EvIdx(ev, "check_fets")))
    /\ EvIdx(ev, "hall_check") # {}
    /\ HallTable(HALL_states[U], HALL_states[V], HALL_states[W]) # 0
    /\ EvIdx(ev, "check_thot") # {}
    /\ \A k \in EvIdx(ev, "read_thot") : ev[k].b >= 100

\* C35: a run_checks call looks at the idle current first, makes its
\* check_fets calls after that, the hall check after them and check_thot
\* last; a failed check (E85, E20, E75, E10) makes it return false with no
\* later check made and no other failure printed; it returns true exactly
\* when every check was made and passed.
C35_FixedOrder ==
    op = "run_checks"
    => /\ Cardinality(EvIdx(ev, "idle_current")) = 1
       /\ \A f \in EvIdx(ev, "check_fets") :
             /\ MinOf(EvIdx(ev, "idle_current")) < f
             /\ \A h \in EvIdx(ev, "hall_check") : f < h
       /\ \A h \in EvIdx(ev, "hall_check") :
             \A c \in EvIdx(ev, "check_thot") : h < c
       /\ Printed(85)
          => /\ EvIdx(ev, "check_fets") = {} /\ EvIdx(ev, "hall_check") = {}
             /\ EvIdx(ev, "check_thot") = {}
       /\ Printed(20)
          => EvIdx(ev, "hall_check") = {} /\ EvIdx(ev, "check_thot") = {}
       /\ Printed(75) => EvIdx(ev, "check_thot") = {}
       /\ ret = 0
          <=> Cardinality({c \in {85, 20, 75, 10} : Printed(c)}) = 1
       /\ ret = 1 <=> Cardinality({c \in {85, 20, 75, 10} : Printed(c)}) = 0
       /\ ret = 1 <=> AllChecksPass

\* the FET test passed at the second attempt and the hall pins read
\* 1-1-1: E75, and check_thot was not called
C35_Witness ==
    /\ op = "run_checks" /\ ret = 0 /\ Printed(75)
    /\ HALL_states = Hall(1, 1, 1)
    /\ EvIdx(ev, "check_fets") # {} /\ EvIdx(ev, "check_thot") = {}

\* C37: a run_checks call fails the idle-current check (E85) exactly when
\* both reads of the current pin average above 10; it then returns false
\* without a check_fets call and without a write that switches an output
\* or a commanded state on.
C37_IdleCurrent ==
    op = "run_checks"
    => /\ Printed(85) <=> (IdleCurrent.a > 10 /\ IdleCurrent.b > 10)
       /\ Printed(85)
          => /\ ret = 0 /\ EvIdx(ev, "check_fets") = {}
             /\ \A k \in DOMAIN log : log[k].v = 0
             /\ AllPinsOff

\* both reads averaged 11, after a run in which the FET test had run
C37_Witness ==
    /\ op = "run_checks" /\ Printed(85) /\ ret = 0
    /\ IdleCurrent.a = 11 /\ IdleCurrent.b = 11
    /\ log # << >> /\ max_volts > 0

\* how many of the six outputs the snapshot has on
SwitchesOn(x) ==
    Cardinality({i \in Phases : x.pinH[i] > 0})
    + Cardinality({i \in Phases : x.pinL[i] = 1})

\* the write at k switches an output on
SwitchOn(k, kind, i) == log[k].kind = kind /\ log[k].i = i /\ log[k].v > 0

\* C36: after every write of a check_fets call at most one of the six
\* outputs is on; a phase's low side is switched on only with every high
\* side off and after that phase's high side was switched on and then
\* written off; and whether the call passes, prints E21 or prints E22, it
\* returns with all six outputs off and every H_states and L_states entry 0.
C36_FetTestSwitching ==
    op = "check_fets"
    => /\ \A k \in DOMAIN log : SwitchesOn(log[k]) <= 1
       /\ \A k \in DOMAIN log : \A i \in Phases :
             SwitchOn(k, "pinL", i)
             => /\ \A j \in Phases : log[k].pinH[j] = 0
                /\ \E on \in 1..(k - 1) : \E off \in (on + 1)..(k - 1) :
                      /\ SwitchOn(on, "pinH", i)
                      /\ log[off].kind = "pinH" /\ log[off].i = i
                      /\ log[off].v = 0
       /\ AllPinsOff
       /\ \A i \in Phases : H_states[i] = 0 /\ L_states[i] = 0
       /\ ret = 0 <=> (Printed(21) \/ Printed(22))

\* a check_fets call that switched every output on in its turn and then
\* printed E22
C36_Witness ==
    /\ op = "check_fets" /\ ret = 0 /\ Printed(22)
    /\ \A i \in Phases :
          \E k \in DOMAIN log : \E j \in DOMAIN log :
             SwitchOn(k, "pinH", i) /\ SwitchOn(j, "pinL", i)
    /\ AllPinsOff

\* C38: after a loop iteration in which motor_loop read a valid step
\* count_zeros is 0; after one in which it read 0-0-0 or 1-1-1 count_zeros
\* is the number of Invalid readings motor_loop has had in a row, whichever
\* of the two patterns each of them was.
C38_CountZeros ==
    op = "loop"
    => /\ Cardinality(EvIdx(ev, "motor_loop")) = 1
       /\ HallTable(HALL_states[U], HALL_states[V], HALL_states[W]) # 0
          => count_zeros = 0 /\ inv_run = 0
       /\ HallTable(HALL_states[U], HALL_states[V], HALL_states[W]) = 0
          => count_zeros = inv_run /\ inv_run >= 1 /\ hall_state = 0

\* the hall pins read 1-1-1 in the third Invalid reading in a row
C38_Witness ==
    /\ op = "loop" /\ HALL_states = Hall(1, 1, 1) /\ hall_state = 0
    /\ prev_step = 0 /\ count_zeros = 3 /\ inv_run = 3

\* the index of the last write the FET test made with an output on
LastFetOn == MaxOf({k \in DOMAIN log : log[k].fn = "check_fets" /\ log[k].v > 0})

\* C39: once the FET test in the simple test program's setup() has failed,
\* setup() has made no write after the test that switches an output on, all
\* six outputs and all commanded states are off, kill_motor has been
\* called, and the program stays in setup(): loop() is never called, so the
\* outputs stay off for good.
C39_FetFailureHalts ==
    /\ boot_fets = "fail"
       => /\ op = "setup_simple" /\ pc = "simple_halted"
          /\ EvIdx(ev, "kill_motor") # {}
          /\ \A k \in DOMAIN log : k > LastFetOn => log[k].v = 0
          /\ AllPinsOff
          /\ \A i \in Phases : H_states[i] = 0 /\ L_states[i] = 0
    /\ op = "loop_simple" => boot_fets = "pass" /\ pc = "simple_loop"
    /\ pc = "simple_halted" => boot_fets = "fail"

\* setup() found the low side of V not switching (E22) and has stopped
C39_Witness ==
    /\ boot_fets = "fail" /\ pc = "simple_halted" /\ Printed(22)
    /\ EvIdx(ev, "kill_motor") # {} /\ EvIdx(ev, "while_1") # {}
    /\ max_volts = 430 /\ AllPinsOff

====
